---- MODULE Spec2Model ----
(***************************************************************************)
(* TransientObject of transientSources/transients.py (and its older twin   *)
(* transients/transients.py): construction from explicit arrays and from a *)
(* data directory, the wavelength validation pass, photometry assembly and *)
(* the lazily cached SNCosmoSource.  The older module has the same          *)
(* constructor, fromDataDir, parse_mjds and validateWavelengths, but never *)
(* imports numpy, so the model follows transientSources/transients.py.     *)
(*                                                                         *)
(* Conventions.  A Python string is a sequence of one-character strings.   *)
(* A 2-D numpy array (a table) is a sequence of rows, a row a tuple of     *)
(* columns.  Numbers are integers: days are whole numbers, wavelengths are *)
(* in units of 0.01 Angstrom (4000 A is 400000).  Sequences are 1-based;   *)
(* the indices validateWavelengths prints are the code's 0-based ones.     *)
(* None is the empty tuple and a present value v is <<v>>.                 *)
(***************************************************************************)
EXTENDS Integers, Sequences, FiniteSets

\* ------------------------------------------------------------------ bounds
\* Largest number of epochs handed to the explicit constructor.
MaxN == 3
\* Longest filterList handed to getPhotometry.
MaxFilters == 2

\* ------------------------------------------------------- Python strings
DIGITS == <<"0", "1", "2", "3", "4", "5", "6", "7", "8", "9">>
UPPER == <<"A", "B", "D", "G", "M", "T", "V">>
LOWER == <<"a", "b", "d", "g", "m", "t", "v">>

\* str.lower(), character by character.
LowerChar(c) ==
    IF \E k \in 1..Len(UPPER) : UPPER[k] = c
    THEN LOWER[CHOOSE k \in 1..Len(UPPER) : UPPER[k] = c]
    ELSE c

Lower(s) == [k \in 1..Len(s) |-> LowerChar(s[k])]

\* str.find(sub) + 1: the 1-based place of the first occurrence, 0 if none.
Find(s, sub) ==
    LET hits == {k \in 1..(Len(s) - Len(sub) + 1) :
                    SubSeq(s, k, k + Len(sub) - 1) = sub}
    IN  IF hits = {} THEN 0 ELSE CHOOSE k \in hits : \A h \in hits : k <= h

\* `sub in s`
Contains(s, sub) == Find(s, sub) # 0

EndsWith(s, suf) ==
    /\ Len(s) >= Len(suf)
    /\ SubSeq(s, Len(s) - Len(suf) + 1, Len(s)) = suf

\* s.split(sep)[0]
SplitFirst(s, sep) ==
    IF Find(s, sep) = 0 THEN s ELSE SubSeq(s, 1, Find(s, sep) - 1)

\* s.split(c)[-1] for a one-character separator c
SplitLast(s, c) ==
    LET hits == {k \in 1..Len(s) : s[k] = c}
    IN  IF hits = {} THEN s
        ELSE SubSeq(s, (CHOOSE k \in hits : \A h \in hits : h <= k) + 1, Len(s))

IsDigit(c) == \E k \in 1..Len(DIGITS) : DIGITS[k] = c

DigitVal(c) == (CHOOSE k \in 1..Len(DIGITS) : DIGITS[k] = c) - 1

\* float(tok) of a string of decimal digits (the day tokens of the file names
\* modelled here are whole numbers); anything else is the ValueError float()
\* raises for a token that is no number.
RECURSIVE DigitsValue(_)
DigitsValue(tok) ==
    IF tok = <<>> THEN 0
    ELSE 10 * DigitsValue(SubSeq(tok, 1, Len(tok) - 1)) + DigitVal(tok[Len(tok)])

IsNumeric(tok) == tok # <<>> /\ \A k \in 1..Len(tok) : IsDigit(tok[k])

\* parse_mjds: the text before '_mangled', its last '_'-delimited field, float().
\* <<v>> is the value returned, <<>> stands for the ValueError raised.
parse_mjds(mangledSpectraFileName) ==
    LET s == SplitFirst(mangledSpectraFileName,
                        <<"_", "m", "a", "n", "g", "l", "e", "d">>)
        day == SplitLast(s, "_")
    IN  IF IsNumeric(day) THEN <<DigitsValue(day)>> ELSE <<>>

\* ---------------------------------------------------------------- numpy
None == <<>>

Abs(x) == IF x < 0 THEN -x ELSE x

\* table[:, c]
Col(table, c) == [k \in 1..Len(table) |-> table[k][c]]

\* All permutations of 1..n, as sequences.
Perms(n) == {p \in [1..n -> 1..n] : \A i, j \in 1..n : i # j => p[i] # p[j]}

\* np.argsort(days), default kind: an index order under which days is
\* non-decreasing.  The default sort is not stable, so among equal days any
\* order may come back.
ArgSorts_Unsorted(days) == {[i \in 1..Len(days) |-> i]}

ArgSorts(days) ==
    {p \in Perms(Len(days)) :
        \A i, j \in 1..Len(days) : i < j => days[p[i]] <= days[p[j]]}

\* arr[idx] with an integer index array: raises IndexError when an index is
\* out of bounds for arr.
IndexOK(arr, idx) == \A i \in 1..Len(idx) : idx[i] <= Len(arr)

Take(arr, idx) == [i \in 1..Len(idx) |-> arr[idx[i]]]

\* np.allclose(a, b) of two equal-length columns, numpy's default tolerances
\* rtol = 1e-5 and atol = 1e-8: every |a - b| <= atol + rtol * |b|.  In units
\* of 0.01 A this reads |a - b| <= 1e-6 + |b| / 10^5, which for whole numbers
\* is |a - b| <= |b| \div 10^5 (the fraction of |b| / 10^5 is at most 0.99999).
\* At 4000 A two wavelengths up to 0.04 A apart are close.
AllClose_Exact(a, b) == \A k \in 1..Len(a) : a[k] = b[k]

AllClose(a, b) ==
    \A k \in 1..Len(a) : Abs(a[k] - b[k]) <= Abs(b[k]) \div 100000

\* ------------------------------------------------------------ the object
VARIABLES
    status,           \* "none": nothing constructed yet; "built"; "raised"
    args,             \* the arguments the constructor was called with
    dir,              \* the directory fromDataDir scanned (files), else {}
    name, sortOrder, data_fnames, mangled_fnames,
    spectral_data, mangled_spectra, mjds,
    phasePeak,        \* self._phasePeak
    peakLog,          \* what each peakphase('bessellB') query returned
    ret,              \* the last call: [op, path, raised, value], path
                      \* naming the branch an SNCosmoSource access took
    out               \* the lines the last call printed

vars == <<status, args, dir, name, sortOrder, data_fnames, mangled_fnames,
          spectral_data, mangled_spectra, mjds, phasePeak, peakLog, ret, out>>

fields == <<name, sortOrder, data_fnames, mangled_fnames, spectral_data,
            mangled_spectra, mjds>>

Line(msg, i) == [msg |-> msg, a |-> 0, b |-> i]

\* validateWavelengths: what it prints, line by line, for a non-empty
\* sequence of mangled spectra.  i is the code's 0-based index.
RECURSIVE ValidateLines(_, _, _)
ValidateLines(spectra, verbose, i) ==
    IF i >= Len(spectra) THEN <<>>
    ELSE LET firstwave == Col(spectra[1], 1)
             wave == Col(spectra[i + 1], 1)
             here == IF Len(wave) # Len(firstwave)
                     THEN <<Line("Different lengths for ", i)>>
                     ELSE IF ~AllClose(wave, firstwave)
                     THEN <<Line("Different values for ", i)>>
                     ELSE IF verbose THEN <<Line("match!", i)>>
                     ELSE <<>>
         IN  here \o ValidateLines(spectra, verbose, i + 1)

\* self.mangled_spectra[0] of an empty sequence raises IndexError before the
\* loop is entered.
ValidateRaises(spectra) == Len(spectra) = 0

NoArgs == [name |-> <<>>, spectral_data |-> <<>>, matched_spectra |-> <<>>,
           days |-> <<>>, data_fnames |-> <<>>, mangled_fnames |-> <<>>]

NoRet == [op |-> "", path |-> "", raised |-> "", value |-> <<>>]

Init ==
    /\ status = "none"
    /\ args = NoArgs
    /\ dir = {}
    /\ name = <<>>
    /\ sortOrder = <<>>
    /\ data_fnames = <<>>
    /\ mangled_fnames = <<>>
    /\ spectral_data = <<>>
    /\ mangled_spectra = <<>>
    /\ mjds = <<>>
    /\ phasePeak = None
    /\ peakLog = <<>>
    /\ ret = NoRet
    /\ out = <<>>

\* The statement of __init__ that raises for arguments a under sort order
\* order ("" when none does): the four fancy-indexing lines 58-61 raise
\* IndexError when the indexed array is shorter than days, and the validation
\* call of line 66 raises it for an empty sequence of mangled spectra.
InitRaisesAt(a, order) ==
    IF ~IndexOK(a.data_fnames, order) THEN "data_fnames"
    ELSE IF ~IndexOK(a.mangled_fnames, order) THEN "mangled_fnames"
    ELSE IF ~IndexOK(a.spectral_data, order) THEN "spectral_data"
    ELSE IF ~IndexOK(a.matched_spectra, order) THEN "mangled_spectra"
    ELSE IF ValidateRaises(Take(a.matched_spectra, order)) THEN "validateWavelengths"
    ELSE ""

\* TransientObject.__init__(name, spectral_data, matched_spectra, days,
\* data_fnames, mangled_fnames), order being what np.argsort(days) returned.
\* An exception leaves the caller without an object.
__init__(a, order) ==
    /\ args' = a
    /\ phasePeak' = None
    /\ peakLog' = <<>>
    /\ IF InitRaisesAt(a, order) # ""
       THEN /\ status' = "raised"
            /\ ret' = [op |-> "__init__", path |-> "", raised |-> "IndexError",
                       value |-> InitRaisesAt(a, order)]
            /\ out' = <<>>
            /\ UNCHANGED fields
       ELSE /\ status' = "built"
            /\ name' = a.name
            /\ sortOrder' = order
            /\ data_fnames' = Take(a.data_fnames, order)
            /\ mangled_fnames' = Take(a.mangled_fnames, order)
            /\ spectral_data' = Take(a.spectral_data, order)
            /\ mangled_spectra' = Take(a.matched_spectra, order)
            /\ mjds' = Take(a.days, order)
            /\ out' = ValidateLines(Take(a.matched_spectra, order), FALSE, 0)
            /\ ret' = [op |-> "__init__", path |-> "", raised |-> "", value |-> <<>>]

\* ------------------------------------------------- explicit construction
\* Inputs of the explicit constructor: n epochs, a day and a wavelength grid
\* per epoch.  The grids: a base grid, one within allclose's tolerance of it
\* (0.01 A off at 4000 A), one that is decreasing (and far from the base), and
\* a longer one.
DayVals == {1, 2}

Grids == {<<400000, 500000>>, <<400001, 500000>>, <<500000, 400000>>,
          <<400000, 500000, 600000>>}

SourceName == <<"S", "N">>

\* A mangled table on a given grid; the flux column tells the tables apart.
MangledTable(grid, tag) == [k \in 1..Len(grid) |-> <<grid[k], 10 * tag + k>>]

\* A raw spectrum table, on a grid of its own.
RawTable(tag) == <<<<300000, 100 + tag>>, <<350000, 200 + tag>>>>

ExplicitArgs(days, grids) ==
    [name |-> SourceName,
     spectral_data |-> [i \in 1..Len(days) |-> RawTable(i)],
     matched_spectra |-> [i \in 1..Len(days) |-> MangledTable(grids[i], i)],
     days |-> days,
     data_fnames |-> [i \in 1..Len(days) |-> <<"r", DIGITS[i + 1]>>],
     mangled_fnames |-> [i \in 1..Len(days) |-> <<"m", DIGITS[i + 1]>>]]

\* TransientObject(name, spectral_data, matched_spectra, days, data_fnames,
\* mangled_fnames) with arrays of one length.
Construct ==
    /\ status = "none"
    /\ \E n \in 0..MaxN :
       \E days \in [1..n -> DayVals], grids \in [1..n -> Grids] :
       \E order \in ArgSorts(days) :
          __init__(ExplicitArgs(days, grids), order)
    /\ UNCHANGED dir

\* ------------------------------------------------ construction from a directory
DirDays == {1, 2}

MANGLED_TXT == <<"_", "m", "a", "n", "g", "l", "e", "d", ".", "t", "x", "t">>

\* The files of a data directory, each with the table np.loadtxt(x, skiprows=2)
\* reads from it.
RawFile(d) ==
    [name |-> <<"s", "n", "_", DIGITS[d + 1], ".", "d", "a", "t">>,
     table |-> RawTable(d)]

MangledFile(d) ==
    [name |-> <<"s", "n", "_", DIGITS[d + 1]>> \o MANGLED_TXT,
     table |-> MangledTable(<<400000, 500000>>, d)]

\* A mangled file whose day field is no number.
BadMangledFile ==
    [name |-> <<"s", "n", "_", "x">> \o MANGLED_TXT,
     table |-> MangledTable(<<400000, 500000>>, 9)]

DirOf(R, M, bad) ==
    {RawFile(d) : d \in R} \cup {MangledFile(d) : d \in M}
        \cup (IF bad THEN {BadMangledFile} ELSE {})

\* glob.glob(spectralDataDir + '/*' + suffix): the matching files, in whatever
\* order the directory listing returns them.
Glob(files, suffix) ==
    LET hit == {f \in files : EndsWith(f.name, suffix)}
    IN  {g \in [1..Cardinality(hit) -> hit] :
            \A i, j \in 1..Cardinality(hit) : i # j => g[i] # g[j]}

\* fromDataDir(name, spectralDataDir): two directory scans, the tables loaded,
\* the days parsed from the mangled file names, then the constructor.
fromDataDir ==
    /\ status = "none"
    /\ \E R \in SUBSET DirDays, M \in SUBSET DirDays, bad \in BOOLEAN :
       LET files == DirOf(R, M, bad) IN
       \E spectralDataFname \in Glob(files, <<".", "d", "a", "t">>),
          mangledDataFname \in Glob(files, SubSeq(MANGLED_TXT, 2, 12)) :
          LET parsed == [i \in 1..Len(mangledDataFname) |->
                            parse_mjds(mangledDataFname[i].name)]
              days == [i \in 1..Len(parsed) |-> parsed[i][1]]
              a == [name |-> SourceName,
                    spectral_data |-> [i \in 1..Len(spectralDataFname) |->
                                          spectralDataFname[i].table],
                    matched_spectra |-> [i \in 1..Len(mangledDataFname) |->
                                            mangledDataFname[i].table],
                    days |-> days,
                    data_fnames |-> [i \in 1..Len(spectralDataFname) |->
                                        spectralDataFname[i].name],
                    mangled_fnames |-> [i \in 1..Len(mangledDataFname) |->
                                           mangledDataFname[i].name]]
          IN  /\ dir' = files
              /\ IF \E i \in 1..Len(parsed) : parsed[i] = <<>>
                 THEN /\ status' = "raised"
                      /\ ret' = [op |-> "fromDataDir", path |-> "", raised |-> "ValueError",
                                 value |-> "parse_mjds"]
                      /\ out' = <<>>
                      /\ UNCHANGED <<args, fields, phasePeak, peakLog>>
                 ELSE \E order \in ArgSorts(days) : __init__(a, order)

\* ---------------------------------------------------- validateWavelengths
\* validateWavelengths(verbose) on a constructed object (whose mangled
\* sequence is non-empty, or the constructor would have raised).
validateWavelengths ==
    /\ status = "built"
    /\ \E verbose \in BOOLEAN :
          /\ out' = ValidateLines(mangled_spectra, verbose, 0)
          /\ ret' = [op |-> "validateWavelengths", path |-> "", raised |-> "", value |-> verbose]
    /\ UNCHANGED <<status, args, dir, fields, phasePeak, peakLog>>

\* ------------------------------------------------------------ photometry
\* filterDict of photometryTable, which getPhotometry never overrides.
filterDict ==
    [b \in {"B", "V", "r", "i"} |->
        CASE b = "B" -> "bessellB" [] b = "V" -> "bessellV"
          [] b = "r" -> "bessellR" [] b = "i" -> "bessellI"]

\* The bands a caller asks for; g has a subdirectory and no filterDict entry.
Bands == {"B", "V", "i", "g"}

\* The photometry directories a caller passes: "d", and "sn_mags", whose own
\* name holds '_mag'.
DataDirs == {<<"d">>, <<"s", "n", "_", "m", "a", "g", "s">>}

DOT_DAT == <<".", "D", "A", "T">>

\* The files below a photometry directory, <band>/<file>, with the rows
\* (time, flux, fluxerr) ascii.read returns for each.  Every row is unlike
\* every other, so a row tells which file it came from.
PhotFiles ==
    {[band |-> "B", file |-> <<"B", "1">> \o DOT_DAT,
      rows |-> <<<<11, 1, 1>>, <<12, 1, 1>>>>],
     [band |-> "B", file |-> <<"B", "2">> \o DOT_DAT, rows |-> <<<<21, 1, 1>>>>],
     [band |-> "B", file |-> <<"B", "3", ".", "d", "a", "t">>,
      rows |-> <<<<31, 1, 1>>>>],
     [band |-> "V", file |-> <<"V", "1">> \o DOT_DAT,
      rows |-> <<<<41, 1, 1>>, <<42, 1, 1>>, <<43, 1, 1>>>>],
     [band |-> "V", file |-> <<"V", "_", "M", "A", "G">> \o DOT_DAT,
      rows |-> <<<<51, 1, 1>>>>],
     [band |-> "i", file |-> <<"i", "_", "m", "a", "g">> \o DOT_DAT,
      rows |-> <<<<61, 1, 1>>>>],
     [band |-> "g", file |-> <<"g", "1">> \o DOT_DAT, rows |-> <<<<71, 1, 1>>>>]}

\* os.path.join(dataDir, filt)
PathJoin(a, b) == a \o <<"/">> \o <<b>>

FullPath(dataDir, f) == PathJoin(dataDir, f.band) \o <<"/">> \o f.file

\* glob.glob(dirname + '/*.DAT') for dirname = os.path.join(dataDir, filt):
\* the full paths of the band's files that end in .DAT (the match is
\* case-sensitive), in whatever order the listing returns them.
GlobDAT(dataDir, filt) ==
    LET hit == {FullPath(dataDir, f) :
                   f \in {g \in PhotFiles : g.band = filt /\ EndsWith(g.file, DOT_DAT)}}
    IN  {g \in [1..Cardinality(hit) -> hit] :
            \A i, j \in 1..Cardinality(hit) : i # j => g[i] # g[j]}

\* ascii.read(fname, names=['time', 'flux', 'fluxerr'])
AsciiRead(dataDir, fname) ==
    (CHOOSE f \in PhotFiles : FullPath(dataDir, f) = fname).rows

\* photometryTable(fname, filt): the file's rows with the band column set to
\* filterDict[filt]; <<>> stands for the KeyError of a band filterDict lacks.
photometryTable(dataDir, fname, filt) ==
    IF filt \notin DOMAIN filterDict THEN <<>>
    ELSE LET data == AsciiRead(dataDir, fname)
         IN  <<[k \in 1..Len(data) |->
                  [time |-> data[k][1], flux |-> data[k][2], fluxerr |-> data[k][3],
                   band |-> filterDict[filt]]]>>

\* `'_mag' not in filename.lower()`, filename being the full path glob returned.
IsOurFile(filename) == ~Contains(Lower(filename), <<"_", "m", "a", "g">>)

\* The inner loop of getPhotometry over the files of one band, from file j on.
\* acc is [raised, tables].
RECURSIVE FilesLoop(_, _, _, _, _)
FilesLoop(acc, dataDir, filt, files, j) ==
    IF acc.raised # "" \/ j > Len(files) THEN acc
    ELSE IF ~IsOurFile(files[j]) THEN FilesLoop(acc, dataDir, filt, files, j + 1)
    ELSE LET t == photometryTable(dataDir, files[j], filt)
         IN  IF t = <<>>
             THEN [raised |-> "KeyError", tables |-> acc.tables]
             ELSE FilesLoop([raised |-> "", tables |-> Append(acc.tables, t[1])],
                            dataDir, filt, files, j + 1)

\* The outer loop over filterList, from entry k on; globs[k] is what the scan
\* of entry k's subdirectory returned.
RECURSIVE FiltersLoop(_, _, _, _, _)
FiltersLoop(acc, dataDir, filterList, globs, k) ==
    IF acc.raised # "" \/ k > Len(filterList) THEN acc
    ELSE FiltersLoop(FilesLoop(acc, dataDir, filterList[k], globs[k], 1),
                     dataDir, filterList, globs, k + 1)

\* astropy.table.vstack: the rows of the tables, one table after the other.
RECURSIVE vstack(_)
vstack(tables) ==
    IF tables = <<>> THEN <<>> ELSE tables[1] \o vstack(Tail(tables))

\* Lines 163-167: several tables are stacked, one is returned as it is, and
\* photometryTables[0] of an empty list raises IndexError.
Assemble_FirstOnly(photometryTables) ==
    IF Len(photometryTables) = 0 THEN [raised |-> "IndexError", value |-> <<>>]
    ELSE [raised |-> "", value |-> photometryTables[1]]

Assemble_EmptyTable(photometryTables) ==
    [raised |-> "", value |-> vstack(photometryTables)]

Assemble(photometryTables) ==
    IF Len(photometryTables) > 1
    THEN [raised |-> "", value |-> vstack(photometryTables)]
    ELSE IF Len(photometryTables) = 0
    THEN [raised |-> "IndexError", value |-> <<>>]
    ELSE [raised |-> "", value |-> photometryTables[1]]

FilterLists == UNION {[1..n -> Bands] : n \in 0..MaxFilters}

\* The body of getPhotometry(dataDir, filterList), globs[k] being what the
\* directory scan of filterList[k] returned: [raised, value].
getPhotometryBody(dataDir, filterList, globs) ==
    LET acc == FiltersLoop([raised |-> "", tables |-> <<>>],
                           dataDir, filterList, globs, 1)
    IN  IF acc.raised # "" THEN [raised |-> acc.raised, value |-> <<>>]
        ELSE Assemble(acc.tables)

\* Every call of getPhotometry with what it may return or raise, over the
\* directories, the filter lists and the orders the scans may come back in.
PhotCalls ==
    UNION {
      UNION {
        {[dataDir |-> dataDir, filterList |-> filterList,
          result |-> getPhotometryBody(dataDir, filterList, globs)] :
           globs \in {g \in [1..Len(filterList) ->
                               UNION {GlobDAT(dataDir, b) : b \in Bands}] :
                        \A k \in 1..Len(filterList) :
                           g[k] \in GlobDAT(dataDir, filterList[k])}} :
        filterList \in FilterLists} :
      dataDir \in DataDirs}

\* getPhotometry(dataDir, filterList) on a constructed object.
getPhotometry ==
    /\ status = "built"
    /\ \E c \in PhotCalls :
          ret' = [op |-> "getPhotometry", path |-> "", raised |-> c.result.raised,
                  value |-> [dataDir |-> c.dataDir, filterList |-> c.filterList,
                             data |-> c.result.value]]
    /\ out' = <<>>
    /\ UNCHANGED <<status, args, dir, fields, phasePeak, peakLog>>

\* --------------------------------------------------------- SNCosmoSource
\* What peakphase('bessellB') of the provisional source may return.
PeakVals == {0, 2}

\* fluxarray[i] = fluxdata[:, 1] for a row of length L: numpy copies a column
\* of that length, broadcasts one of length 1, and raises ValueError otherwise.
RowFits(col, L) == Len(col) = L \/ Len(col) = 1

FluxRow(col, L) == [k \in 1..L |-> IF Len(col) = 1 THEN col[1] ELSE col[k]]

FluxArray(spectra) ==
    [i \in 1..Len(spectra) |-> FluxRow(Col(spectra[i], 2), Len(spectra[1]))]

\* sncosmo.TimeSeriesSource(phase, wave, flux, name)
TimeSeriesSource(phase, wave, flux, nm) ==
    [phase |-> phase, wave |-> wave, flux |-> flux, name |-> nm]

\* self.mjds - peak
Shifted(days, peak) == [i \in 1..Len(days) |-> days[i] - peak]

\* The property SNCosmoSource, one access of it.
SNCosmoSource_Recompute ==
    /\ status = "built"
    /\ \A i \in 1..Len(mangled_spectra) :
          RowFits(Col(mangled_spectra[i], 2), Len(mangled_spectra[1]))
    /\ \E peak \in PeakVals :
          /\ peakLog' = Append(peakLog, peak)
          /\ phasePeak' = <<peak>>
          /\ ret' = [op |-> "SNCosmoSource",
                     path |-> IF phasePeak = None THEN "query" ELSE "cached",
                     raised |-> "",
                     value |-> TimeSeriesSource(Shifted(mjds, peak),
                                                Col(mangled_spectra[1], 1),
                                                FluxArray(mangled_spectra), name)]
    /\ out' = <<>>
    /\ UNCHANGED <<status, args, dir, fields>>

SNCosmoSource_InPlace ==
    /\ status = "built"
    /\ \A i \in 1..Len(mangled_spectra) :
          RowFits(Col(mangled_spectra[i], 2), Len(mangled_spectra[1]))
    /\ \E peak \in (IF phasePeak = None THEN PeakVals ELSE {phasePeak[1]}) :
          /\ peakLog' = IF phasePeak = None THEN Append(peakLog, peak) ELSE peakLog
          /\ phasePeak' = <<peak>>
          /\ mjds' = Shifted(mjds, peak)
          /\ ret' = [op |-> "SNCosmoSource",
                     path |-> IF phasePeak = None THEN "query" ELSE "cached",
                     raised |-> "",
                     value |-> TimeSeriesSource(Shifted(mjds, peak),
                                                Col(mangled_spectra[1], 1),
                                                FluxArray(mangled_spectra), name)]
    /\ out' = <<>>
    /\ UNCHANGED <<status, args, dir, name, sortOrder, data_fnames,
                   mangled_fnames, spectral_data, mangled_spectra>>

SNCosmoSource ==
    /\ status = "built"
    /\ \/ \* a mangled spectrum of another length: the row assignment raises
          /\ \E i \in 1..Len(mangled_spectra) :
                ~RowFits(Col(mangled_spectra[i], 2), Len(mangled_spectra[1]))
          /\ ret' = [op |-> "SNCosmoSource", path |-> "raise", raised |-> "ValueError",
                     value |-> <<>>]
          /\ UNCHANGED <<phasePeak, peakLog>>
       \/ \* phasePeak is None: the provisional source is asked for the peak
          /\ \A i \in 1..Len(mangled_spectra) :
                RowFits(Col(mangled_spectra[i], 2), Len(mangled_spectra[1]))
          /\ phasePeak = None
          /\ \E peak \in PeakVals :
                /\ peakLog' = Append(peakLog, peak)
                /\ phasePeak' = <<peak>>
                /\ ret' = [op |-> "SNCosmoSource", path |-> "query", raised |-> "",
                           value |-> TimeSeriesSource(Shifted(mjds, peak),
                                        Col(mangled_spectra[1], 1),
                                        FluxArray(mangled_spectra), name)]
       \/ \* phasePeak is cached
          /\ \A i \in 1..Len(mangled_spectra) :
                RowFits(Col(mangled_spectra[i], 2), Len(mangled_spectra[1]))
          /\ phasePeak # None
          /\ ret' = [op |-> "SNCosmoSource", path |-> "cached", raised |-> "",
                     value |-> TimeSeriesSource(Shifted(mjds, phasePeak[1]),
                                  Col(mangled_spectra[1], 1),
                                  FluxArray(mangled_spectra), name)]
          /\ UNCHANGED <<phasePeak, peakLog>>
    /\ out' = <<>>
    /\ UNCHANGED <<status, args, dir, fields>>

\* Construction, validation and the derived source.
Next ==
    \/ Construct
    \/ fromDataDir
    \/ validateWavelengths
    \/ SNCosmoSource

Spec == Init /\ [][Next]_vars

\* Every call a script may make on an object loaded from a directory.
NextCalls ==
    \/ fromDataDir
    \/ validateWavelengths
    \/ getPhotometry
    \/ SNCosmoSource

SpecCalls == Init /\ [][NextCalls]_vars

\* ---------------------------------------------------------------- claims
Built == status = "built"

NonDecreasing(seq) == \A i, j \in 1..Len(seq) : i < j => seq[i] <= seq[j]

StrictlyIncreasing(seq) == \A i \in 1..(Len(seq) - 1) : seq[i] < seq[i + 1]

EqualLengthArgs ==
    /\ Len(args.spectral_data) = Len(args.days)
    /\ Len(args.matched_spectra) = Len(args.days)
    /\ Len(args.data_fnames) = Len(args.days)
    /\ Len(args.mangled_fnames) = Len(args.days)

\* C1: a construction from equal-length inputs stores days in non-decreasing
\* order, and one permutation of the input indices carries days,
\* spectral_data, mangled_spectra, data_fnames and mangled_fnames: at every
\* output index the five sequences hold what shared one input index.
C1_SortedByOnePermutation ==
    (Built /\ EqualLengthArgs) =>
        /\ NonDecreasing(mjds)
        /\ Len(mjds) = Len(args.days)
        /\ Len(spectral_data) = Len(args.days)
        /\ Len(mangled_spectra) = Len(args.days)
        /\ Len(data_fnames) = Len(args.days)
        /\ Len(mangled_fnames) = Len(args.days)
        /\ \E p \in Perms(Len(args.days)) :
              \A i \in 1..Len(args.days) :
                 /\ mjds[i] = args.days[p[i]]
                 /\ spectral_data[i] = args.spectral_data[p[i]]
                 /\ mangled_spectra[i] = args.matched_spectra[p[i]]
                 /\ data_fnames[i] = args.data_fnames[p[i]]
                 /\ mangled_fnames[i] = args.mangled_fnames[p[i]]

\* An object built from three epochs whose days came out of order.
C1_Witness ==
    /\ Built
    /\ dir = {}
    /\ args.days = <<2, 1, 2>>
    /\ sortOrder = <<2, 3, 1>>
    /\ mjds = <<1, 2, 2>>

\* The observation day a file of the data directory belongs to: the field
\* before the extension of a raw file, before '_mangled' of a mangled one.
ObsDayOfRaw(fname) ==
    DigitsValue(SplitLast(SplitFirst(fname, <<".", "d", "a", "t">>), "_"))

RawDaysOf(files) ==
    {ObsDayOfRaw(f.name) : f \in {g \in files : EndsWith(g.name, <<".", "d", "a", "t">>)}}

MangledOf(files) == {g \in files : EndsWith(g.name, SubSeq(MANGLED_TXT, 2, 12))}

WellNamed(files) == \A f \in MangledOf(files) : parse_mjds(f.name) # <<>>

\* C2: after fromDataDir on a directory with one raw and one mangled file per
\* observation day, spectral_data[i] and data_fnames[i] belong to the day
\* days[i], whatever order the two directory scans return.
C2_RawAlignedToDays ==
    (/\ dir # {}
     /\ WellNamed(dir)
     /\ RawDaysOf(dir) = {parse_mjds(f.name)[1] : f \in MangledOf(dir)}
     /\ Built) =>
        \A i \in 1..Len(mjds) :
           /\ ObsDayOfRaw(data_fnames[i]) = mjds[i]
           /\ spectral_data[i] = RawTable(mjds[i])

\* C3: phasePeak is None after construction; the first access of
\* SNCosmoSource asks the peak-phase collaborator once and stores the answer;
\* later accesses keep the value, ask nothing, and return a source whose
\* phases are the days shifted by the cached value.
C3_PeakState ==
    /\ (ret.op \in {"__init__", "fromDataDir"}) => phasePeak = None
    /\ Len(peakLog) <= 1
    /\ (phasePeak = None) <=> (peakLog = <<>>)
    /\ (phasePeak # None) => phasePeak = <<peakLog[1]>>
    /\ (ret.op = "SNCosmoSource" /\ ret.raised = "") =>
          /\ phasePeak # None
          /\ ret.value.phase = [i \in 1..Len(mjds) |-> mjds[i] - phasePeak[1]]

C3_PeakStep ==
    /\ (phasePeak # None) => (phasePeak' = phasePeak /\ peakLog' = peakLog)
    /\ (Built /\ phasePeak = None /\ ret'.op = "SNCosmoSource" /\ ret'.raised = "")
          => (Len(peakLog') = 1 /\ phasePeak' = <<peakLog'[1]>>)

C3_PeakCachedOnce == [](C3_PeakState) /\ [][C3_PeakStep]_vars

\* An access served from the cache, the cached peak being 2.
C3_Witness ==
    /\ ret.op = "SNCosmoSource"
    /\ ret.path = "cached"
    /\ phasePeak = <<2>>
    /\ Len(mjds) = 2

\* What validateWavelengths printed is in `out` after a construction that
\* returned (verbose off) and after a call of validateWavelengths.
Validated == Built /\ ret.op \in {"__init__", "fromDataDir", "validateWavelengths"}

VerboseRun == ret.op = "validateWavelengths" /\ ret.value

Wave(i) == Col(mangled_spectra[i + 1], 1)

Printed(msg, i) == \E k \in 1..Len(out) : out[k] = [msg |-> msg, a |-> 0, b |-> i]

SomeValueDiffers(a, b) == \E k \in 1..Len(a) : a[k] # b[k]

\* |x - y| > atol + rtol * |y| for atol = 1e-8 and rtol = 1e-5, in units of
\* 0.01 A.
BeyondTolerance(a, b) ==
    \E k \in 1..Len(a) : (IF a[k] < b[k] THEN b[k] - a[k] ELSE a[k] - b[k])
                            > (IF b[k] < 0 THEN -b[k] ELSE b[k]) \div 100000

C5_ValidateNeverRaises ==
    ~(/\ ret.op = "__init__"
      /\ ret.raised = "IndexError"
      /\ ret.value = "validateWavelengths")

\* C6: a mangled wavelength column that is not strictly increasing gets a
\* diagnostic in the validation pass run at construction.
C6_NonIncreasingReported ==
    (/\ Built
     /\ ret.op = "__init__"
     /\ \E i \in 0..(Len(mangled_spectra) - 1) : ~StrictlyIncreasing(Wave(i))) =>
        out # <<>>

\* The filter-system name a band maps to.
MappedName(b) ==
    CASE b = "B" -> "bessellB" [] b = "V" -> "bessellV"
      [] b = "r" -> "bessellR" [] b = "i" -> "bessellI"
      [] OTHER -> "unmapped"

\* The files of a band's subdirectory that a scan for *.DAT finds and whose
\* name does not hold the magnitude marker, in either case of letters.
NamedSurvivors(b) ==
    {f \in PhotFiles :
        /\ f.band = b
        /\ EndsWith(f.file, DOT_DAT)
        /\ ~Contains(Lower(f.file), <<"_", "m", "a", "g">>)}

RECURSIVE SumRows(_)
SumRows(files) ==
    IF files = {} THEN 0
    ELSE LET f == CHOOSE g \in files : TRUE
         IN  Len(f.rows) + SumRows(files \ {f})

RECURSIVE RowsRequested(_)
RowsRequested(filterList) ==
    IF filterList = <<>> THEN 0
    ELSE SumRows(NamedSurvivors(Head(filterList))) + RowsRequested(Tail(filterList))

Returned == ret.op = "getPhotometry" /\ ret.raised = ""

\* C7: the table getPhotometry returns holds exactly the rows of the files
\* found in the requested bands' subdirectories whose name lacks the
\* magnitude marker: its row count is the sum of their row counts, taken per
\* entry of filterList, and every row carries the mapped name of the band
\* whose subdirectory its file lies in.
C7_CombinedTable ==
    Returned =>
        LET data == ret.value.data
            filterList == ret.value.filterList
            requested == {filterList[k] : k \in 1..Len(filterList)}
        IN  /\ Len(data) = RowsRequested(filterList)
            /\ \A b \in requested : \A f \in NamedSurvivors(b) :
                  \A j \in 1..Len(f.rows) : \E k \in 1..Len(data) :
                     data[k] = [time |-> f.rows[j][1], flux |-> f.rows[j][2],
                                fluxerr |-> f.rows[j][3], band |-> MappedName(b)]
            /\ \A k \in 1..Len(data) :
                  \E b \in requested : \E f \in NamedSurvivors(b) :
                     /\ \E j \in 1..Len(f.rows) :
                           <<data[k].time, data[k].flux, data[k].fluxerr>> = f.rows[j]
                     /\ data[k].band = MappedName(b)

\* Two bands, three surviving files, six rows in all.
C7_Witness ==
    /\ Returned
    /\ ret.value.filterList = <<"B", "V">>
    /\ Len(ret.value.data) = 6

\* The files of a band that the call collects: found by the scan for *.DAT,
\* the lower-cased path free of '_mag'.
Collected(dataDir, b) ==
    {f \in PhotFiles :
        /\ f.band = b
        /\ EndsWith(f.file, DOT_DAT)
        /\ ~Contains(Lower(dataDir \o <<"/", b, "/">> \o f.file),
                     <<"_", "m", "a", "g">>)}

\* C8 as stated: when some requested band has no surviving file the call ends
\* in the index error, also when other requested bands yield files.  (Bands
\* without a filter-system name are left aside: they end in a key error.)
C8_AnyEmptyBandRaises ==
    (/\ ret.op = "getPhotometry"
     /\ \A k \in 1..Len(ret.value.filterList) :
           MappedName(ret.value.filterList[k]) # "unmapped"
     /\ \E k \in 1..Len(ret.value.filterList) :
           Collected(ret.value.dataDir, ret.value.filterList[k]) = {}) =>
        ret.raised = "IndexError"

\* C8 amended: the call ends in the index error exactly when no requested
\* band yields a surviving file (an empty filterList included); when some
\* bands yield none and others do, the files of the others are returned.
C8_NoFileAtAllRaises ==
    (ret.op = "getPhotometry") =>
        /\ ret.raised = "IndexError" <=>
              \A k \in 1..Len(ret.value.filterList) :
                 Collected(ret.value.dataDir, ret.value.filterList[k]) = {}
        /\ (/\ \E k \in 1..Len(ret.value.filterList) :
                  Collected(ret.value.dataDir, ret.value.filterList[k]) # {}
            /\ \A k \in 1..Len(ret.value.filterList) :
                  MappedName(ret.value.filterList[k]) # "unmapped") =>
              (ret.raised = "" /\ Len(ret.value.data) > 0)

\* The index error for a list of two bands, neither with a surviving file.
C8_Witness ==
    /\ ret.op = "getPhotometry"
    /\ ret.raised = "IndexError"
    /\ ret.value.dataDir = <<"d">>
    /\ ret.value.filterList = <<"i", "i">>

\* C9: fromDataDir on a directory with no .dat file and at least one
\* mangled.txt file completes: the raw sequence has length 0 and
\* mangled_spectra holds every mangled file in ascending day order.
C9_NoRawFilesCompletes ==
    (/\ dir # {}
     /\ WellNamed(dir)
     /\ RawDaysOf(dir) = {}
     /\ MangledOf(dir) # {}) =>
        /\ Built
        /\ Len(spectral_data) = 0
        /\ Len(mangled_spectra) = Cardinality(MangledOf(dir))
        /\ NonDecreasing(mjds)

\* C10: once built, no call changes name, days, spectral_data,
\* mangled_spectra, data_fnames or mangled_fnames, and phasePeak changes only
\* in an SNCosmoSource access that found it None.
C10_FrameStep ==
    Built =>
        /\ status' = "built"
        /\ name' = name
        /\ mjds' = mjds
        /\ spectral_data' = spectral_data
        /\ mangled_spectra' = mangled_spectra
        /\ data_fnames' = data_fnames
        /\ mangled_fnames' = mangled_fnames
        /\ sortOrder' = sortOrder
        /\ (phasePeak' # phasePeak) =>
              (phasePeak = None /\ ret'.op = "SNCosmoSource")

C10_ImmutableButPhasePeak == [][C10_FrameStep]_vars

\* A photometry call on an object whose peak phase is already cached as 2 and
\* whose days differ.
C10_Witness ==
    /\ Built
    /\ ret.op = "getPhotometry"
    /\ phasePeak = <<2>>
    /\ Len(mjds) = 2
    /\ mjds[1] < mjds[2]

====
